---- MODULE Spec2Model ----
(***************************************************************************)
(* Model of app.py of Dash_Vendas: the start-up pipeline that reads the    *)
(* sales and reference workbooks and joins them into df_total, the two     *)
(* Dash callbacks atualizar_marcas and atualizar_graficos, and the module  *)
(* level statements that build, rebind and serve the application object.   *)
(*                                                                         *)
(* A cell of a DataFrame is a sequence of length at most one: <<>> is the  *)
(* missing value (NaN / NaT / None) and <<v>> holds the value v.  A row is *)
(* a function from column names to cells and a DataFrame is a record of    *)
(* its ordered column names and its ordered rows.                          *)
(***************************************************************************)
EXTENDS Integers, Sequences, FiniteSets, TLC

VARIABLES
    pc,            \* the statement of app.py the interpreter is at
    nome,          \* the value of __name__
    disco,         \* the workbooks under /content: path -> whether the file exists, and its sheet
    lista_vendas,  \* app.py:20
    df_vendas,     \* app.py:27
    df_clientes,   \* app.py:30
    df_produtos,   \* app.py:31
    df_lojas,      \* app.py:32
    df_total,      \* app.py:53
    filtros,       \* app.py:63
    objetos,       \* the Dash objects created so far: their layout and callbacks
    app,           \* the module attribute app: an index of objetos, or 0
    server,        \* the module attribute server: an index of objetos, or 0
    servindo,      \* the Dash object answering requests, or 0
    widgets,       \* the value and options properties held by the page
    pendentes,     \* callback requests dispatched by the page and not yet answered
    chamada        \* the last callback call: its arguments, its local df, its answer

vars == <<pc, nome, disco, lista_vendas, df_vendas, df_clientes, df_produtos,
          df_lojas, df_total, filtros, objetos, app, server, servindo,
          widgets, pendentes, chamada>>

-----------------------------------------------------------------------------
(* Bounds of the model.                                                    *)

\* the longest sales table drawn for the query specification
MaxLinhas == 2

\* the longest sales table drawn for the ranking specification is TopN + ExtraTop
ExtraTop == 2

\* the number of sales at the end of a ranking table whose quantity varies
VarTop == 6

\* the callback requests the page may have in flight
MaxPendentes == 2

\* the longest list a multi-select dropdown is set to
MaxEscolhas == 1

-----------------------------------------------------------------------------
(* Cells and generic helpers.                                              *)

NaN == <<>>

isna(c) == c = NaN

notna(c) == c # NaN

Range(s) == {s[i] : i \in DOMAIN s}

RECURSIVE SortNat(_)
\* the members of a finite set of integers in ascending order
SortNat(S) ==
    IF S = {} THEN <<>>
    ELSE LET m == CHOOSE x \in S : \A y \in S : x <= y
         IN  <<m>> \o SortNat(S \ {m})

RECURSIVE Flatten(_)
Flatten(ss) == IF ss = <<>> THEN <<>> ELSE Head(ss) \o Flatten(Tail(ss))

\* Python truthiness of a single-select value: None and "" are falsy
Truthy(v) == v # <<>> /\ v # <<"">>

\* Python truthiness of a multi-select value: None and [] are falsy
TruthyLista(l) == l # <<>>

Pos(s, x) == CHOOSE i \in DOMAIN s : s[i] = x

\* the strings of the model in the order Python's sorted() gives them
Pad2(i) == (IF i < 10 THEN "0" ELSE "") \o ToString(i)

NomeCliente(i) == "Cliente " \o Pad2(i)

NomeProduto(i) == "Produto " \o Pad2(i)

-----------------------------------------------------------------------------
(* The pandas operations the module uses.                                  *)

\* pd.read_excel(path, skiprows=n): the sheet's row n+1 is the header
read_excel(sheet, skiprows) ==
    LET corpo  == IF Len(sheet) > skiprows
                  THEN SubSeq(sheet, skiprows + 1, Len(sheet)) ELSE <<>>
        header == IF corpo = <<>> THEN <<>>
                  ELSE [i \in DOMAIN corpo[1] |-> corpo[1][i][1]]
    IN  [columns |-> header,
         rows    |-> [k \in 1..(Len(corpo) - 1) |->
                        [c \in Range(header) |-> corpo[k + 1][Pos(header, c)]]]]

\* df.columns = nomes (positional relabelling; the caller checks the length)
set_columns(d, nomes) ==
    [columns |-> nomes,
     rows    |-> [k \in DOMAIN d.rows |->
                    [c \in Range(nomes) |-> d.rows[k][d.columns[Pos(nomes, c)]]]]]

\* pd.concat(lista, ignore_index=True) of frames with the same columns
concat(lista) ==
    [columns |-> IF lista = <<>> THEN <<>> ELSE lista[1].columns,
     rows    |-> Flatten([i \in DOMAIN lista |-> lista[i].rows])]

\* df.rename(columns={de: para}, inplace=True)
rename(d, de, para) ==
    LET novo(c) == IF c = de THEN para ELSE c
        velho(c) == IF c = para THEN de ELSE c
    IN  [columns |-> [i \in DOMAIN d.columns |-> novo(d.columns[i])],
         rows    |-> [k \in DOMAIN d.rows |->
                        [c \in {novo(x) : x \in Range(d.columns)} |-> d.rows[k][velho(c)]]]]

\* df.drop(columns=cols, inplace=True)
drop(d, cols) ==
    LET ficam == SelectSeq(d.columns, LAMBDA c : c \notin cols)
    IN  [columns |-> ficam,
         rows    |-> [k \in DOMAIN d.rows |-> [c \in Range(ficam) |-> d.rows[k][c]]]]

\* df[col] = valores, one cell per row (adds the column when it is new)
assign(d, col, valores) ==
    [columns |-> IF col \in Range(d.columns) THEN d.columns ELSE Append(d.columns, col),
     rows    |-> [k \in DOMAIN d.rows |->
                    [c \in Range(d.columns) \cup {col} |->
                        IF c = col THEN valores[k] ELSE d.rows[k][c]]]]

\* Series.astype(str): the missing value becomes the text "nan"
astype_str(c) == IF isna(c) THEN "nan" ELSE c[1]

DiasNoMes(mes, ano) ==
    IF mes \in {4, 6, 9, 11} THEN 30
    ELSE IF mes # 2 THEN 31
    ELSE IF ano % 4 = 0 /\ (ano % 100 # 0 \/ ano % 400 = 0) THEN 29
    ELSE 28

\* a day-first date [dia, mes, ano] names a day of the calendar
DataValida(d) == d.mes \in 1..12 /\ d.dia \in 1..DiasNoMes(d.mes, d.ano)

\* pd.to_datetime(cell, errors='coerce'): what cannot be parsed becomes NaT
to_datetime(c) == IF isna(c) THEN NaN ELSE IF DataValida(c[1]) THEN c ELSE NaN

\* Series.dt.year
dt_year(c) == IF isna(c) THEN NaN ELSE <<c[1].ano>>

\* Series.dt.to_period('M').astype(str): NaT becomes the text "NaT"
to_period_M_str(c) ==
    IF isna(c) THEN "NaT" ELSE ToString(c[1].ano) \o "-" \o Pad2(c[1].mes)

\* a * b on two numeric cells: NaN propagates
mul(a, b) == IF isna(a) \/ isna(b) THEN NaN ELSE <<a[1] * b[1]>>

\* left.merge(right, on=chave, how='left')
merge(left, right, chave) ==
    LET extras == SelectSeq(right.columns, LAMBDA c : c # chave)
        cols   == left.columns \o extras
        junta(l, r) == [c \in Range(cols) |-> IF c \in Range(left.columns) THEN l[c] ELSE r[c]]
        vazio(l)    == [c \in Range(cols) |-> IF c \in Range(left.columns) THEN l[c] ELSE NaN]
        pares(l) ==
            LET ms == SelectSeq(right.rows, LAMBDA r : r[chave] = l[chave])
            IN  IF ms = <<>> THEN <<vazio(l)>>
                ELSE [j \in DOMAIN ms |-> junta(l, ms[j])]
    IN  [columns |-> cols,
         rows    |-> Flatten([k \in DOMAIN left.rows |-> pares(left.rows[k])])]

RECURSIVE Unicos(_)
\* the distinct members of a sequence in order of first appearance
Unicos(s) ==
    IF s = <<>> THEN <<>>
    ELSE LET r == Unicos(SubSeq(s, 1, Len(s) - 1))
             x == s[Len(s)]
         IN  IF x \in Range(r) THEN r ELSE Append(r, x)

\* df[col].dropna().unique()
dropna_unique(d, col) ==
    LET vals == [k \in DOMAIN d.rows |-> d.rows[k][col]]
        nn   == SelectSeq(vals, notna)
    IN  Unicos([i \in DOMAIN nn |-> nn[i][1]])

-----------------------------------------------------------------------------
(* Module constants and the start-up pipeline, one operator per block.     *)

arquivos_vendas ==
    <<"/content/Base Vendas - 2020.xlsx",
      "/content/Base Vendas - 2021.xlsx",
      "/content/Base Vendas - 2022.xlsx">>

colunas_vendas ==
    <<"Data da Venda", "Ordem de Compra", "ID Produto", "ID Cliente", "Qtd Vendida", "ID Loja">>

arquivo_clientes == "/content/Cadastro Clientes.xlsx"

arquivo_produtos == "/content/Cadastro Produtos.xlsx"

arquivo_lojas == "/content/Cadastro Lojas.xlsx"

\* rows of the customer workbook above its header row
SkipRowsClientes == 2

\* the body of the loop over arquivos_vendas
ler_venda(sheet) == set_columns(read_excel(sheet, 0), colunas_vendas)

\* pd.read_excel raised (no file), or the column relabelling raised (length mismatch)
ler_venda_falha(arq) ==
    ~arq.existe \/ Len(read_excel(arq.planilha, 0).columns) # Len(colunas_vendas)

\* unify the customers' full name
tratar_clientes(d) ==
    IF "Primeiro Nome" \in Range(d.columns) /\ "Sobrenome" \in Range(d.columns)
    THEN drop(assign(d, "Nome Completo",
                     [k \in DOMAIN d.rows |->
                        <<astype_str(d.rows[k]["Primeiro Nome"]) \o " "
                            \o astype_str(d.rows[k]["Sobrenome"])>>]),
              {"Primeiro Nome", "Sobrenome"})
    ELSE d

\* rename SKU to ID Produto where the column exists
renomear_sku(d) ==
    IF "SKU" \in Range(d.columns) THEN rename(d, "SKU", "ID Produto") ELSE d

\* convert 'Data da Venda' (day first; what cannot be parsed becomes NaT)
converter_datas(d) ==
    assign(d, "Data da Venda", [k \in DOMAIN d.rows |-> to_datetime(d.rows[k]["Data da Venda"])])

\* the three left joins
mesclar(v, c, p, l) ==
    merge(merge(merge(v, c, "ID Cliente"), p, "ID Produto"), l, "ID Loja")

\* a merge key is missing on one side: KeyError
mesclar_falha(v, c, p, l) ==
    \/ "ID Cliente" \notin Range(v.columns) \cap Range(c.columns)
    \/ "ID Produto" \notin Range(v.columns) \cap Range(p.columns)
    \/ "ID Loja" \notin Range(v.columns) \cap Range(l.columns)

\* df_total['Ano'] = df_total['Data da Venda'].dt.year
coluna_ano(t) ==
    assign(t, "Ano", [k \in DOMAIN t.rows |-> dt_year(t.rows[k]["Data da Venda"])])

\* df_total['Valor da Venda'] = df_total['Qtd Vendida'] * df_total['Preço Unitario']
coluna_valor(t) ==
    assign(t, "Valor da Venda",
           [k \in DOMAIN t.rows |-> mul(t.rows[k]["Qtd Vendida"], t.rows[k]["Preço Unitario"])])

coluna_valor_falha(t) == "Preço Unitario" \notin Range(t.columns)

colunas_filtros ==
    [tipo |-> "Tipo do Produto", marca |-> "Marca", produto |-> "Produto",
     loja |-> "Nome da Loja", cliente |-> "Nome Completo"]

\* the distinct non-null values of each filterable column
preparar_filtros(t) ==
    [f \in DOMAIN colunas_filtros |-> dropna_unique(t, colunas_filtros[f])]

preparar_filtros_falha(t) ==
    \E f \in DOMAIN colunas_filtros : colunas_filtros[f] \notin Range(t.columns)

-----------------------------------------------------------------------------
(* The reductions the callbacks use.                                       *)

\* the number of entries the two rankings keep
TopN == 10

\* the number of figures atualizar_graficos returns
NumFiguras == 6

RECURSIVE SomaSeq(_)
\* Series.sum(): missing values are skipped
SomaSeq(s) ==
    IF s = <<>> THEN 0
    ELSE (IF isna(Head(s)) THEN 0 ELSE Head(s)[1]) + SomaSeq(Tail(s))

\* df[col].count() where df[col].sum() is meant
soma_coluna_count(d, col) ==
    Len(SelectSeq([k \in DOMAIN d.rows |-> d.rows[k][col]], notna))

\* df[col].sum()
soma_coluna(d, col) == SomaSeq([k \in DOMAIN d.rows |-> d.rows[k][col]])

\* df[df[col] == v]
filtrar_igual(d, col, v) ==
    [d EXCEPT !.rows = SelectSeq(d.rows, LAMBDA r : r[col] = v)]

\* df[df[col].isin(lista)]
filtrar_isin(d, col, lista) ==
    [d EXCEPT !.rows = SelectSeq(d.rows, LAMBDA r : notna(r[col]) /\ r[col][1] \in Range(lista))]

\* the values of the column col that are not missing
Chaves(d, col) == {d.rows[k][col][1] : k \in {j \in DOMAIN d.rows : notna(d.rows[j][col])}}

\* df.groupby(col)[medida].sum().reset_index(): rows whose key is missing are
\* dropped, the groups come in ascending order of the key
\* (ordem gives each key its place in the sort order of the keys)
groupby_sum(d, col, medida, ordem) ==
    LET chaves == Chaves(d, col)
        postos == SortNat({ordem[c] : c \in chaves})
        chave(i) == CHOOSE c \in chaves : ordem[c] = postos[i]
    IN  [i \in DOMAIN postos |->
           [chave |-> chave(i),
            valor |-> soma_coluna(filtrar_igual(d, col, <<chave(i)>>), medida)]]

\* Series.head(n) where Series.nlargest(n) is meant
nlargest_head(s, n) == SubSeq(s, 1, IF n < Len(s) THEN n ELSE Len(s))

RECURSIVE nlargest(_, _)
\* Series.nlargest(n): the n largest values, largest first, the first of equals first
nlargest(s, n) ==
    IF n = 0 \/ s = <<>> THEN <<>>
    ELSE LET i == CHOOSE a \in DOMAIN s :
                    /\ \A b \in DOMAIN s : s[b].valor <= s[a].valor
                    /\ \A b \in 1..(a - 1) : s[b].valor < s[a].valor
             resto == [j \in 1..(Len(s) - 1) |-> IF j < i THEN s[j] ELSE s[j + 1]]
         IN  <<s[i]>> \o nlargest(resto, n - 1)

-----------------------------------------------------------------------------
(* The callbacks, as functions of df_total and their arguments.            *)

\* the texts of the model in the order Python's sorted() gives them
Lexico ==
    <<"Alice Silva", "Bob Souza", "Bota", "Camisas", "Centro">>
    \o [i \in 1..(TopN + ExtraTop) |-> NomeCliente(i)]
    \o <<"Norte", "Polo">>
    \o [i \in 1..(TopN + ExtraTop) |-> NomeProduto(i)]
    \o <<"Sapatos", "Tenis", "X", "Y", "nan nan">>

\* the place of each text in the sort order of texts
OrdemTexto == [t \in Range(Lexico) |-> Pos(Lexico, t)]

\* the place of each number of S in the sort order of numbers
OrdemNumero(S) == [n \in S |-> n]

\* sorted(valores) for distinct texts
sorted(valores) ==
    LET postos == SortNat({OrdemTexto[v] : v \in Range(valores)})
    IN  [i \in DOMAIN postos |-> Lexico[postos[i]]]

\* [{'label': i, 'value': i} for i in valores]
opcoes(valores) == [i \in DOMAIN valores |-> [label |-> valores[i], value |-> valores[i]]]

\* atualizar_marcas without the selection by type
atualizar_marcas_sem_tipo(total, tipo) ==
    IF Truthy(tipo) THEN opcoes(sorted(dropna_unique(total, "Marca"))) ELSE <<>>

\* the body of atualizar_marcas
atualizar_marcas(total, tipo) ==
    IF Truthy(tipo)
    THEN opcoes(sorted(dropna_unique(filtrar_igual(total, "Tipo do Produto", tipo), "Marca")))
    ELSE <<>>

\* the head of atualizar_graficos with "elif marca" where "if marca" is meant
filtrar_elif(total, tipo, marca, produtos, lojas, clientes) ==
    LET d0 == total
        d1 == IF Truthy(tipo) THEN filtrar_igual(d0, "Tipo do Produto", tipo)
              ELSE IF Truthy(marca) THEN filtrar_igual(d0, "Marca", marca) ELSE d0
        d3 == IF TruthyLista(produtos) THEN filtrar_isin(d1, "Produto", produtos) ELSE d1
        d4 == IF TruthyLista(lojas) THEN filtrar_isin(d3, "Nome da Loja", lojas) ELSE d3
        d5 == IF TruthyLista(clientes) THEN filtrar_isin(d4, "Nome Completo", clientes) ELSE d4
    IN  converter_datas(d5)

\* the head of atualizar_graficos: the copy, the five filters, the date coercion
filtrar(total, tipo, marca, produtos, lojas, clientes) ==
    LET d0 == total
        d1 == IF Truthy(tipo) THEN filtrar_igual(d0, "Tipo do Produto", tipo) ELSE d0
        d2 == IF Truthy(marca) THEN filtrar_igual(d1, "Marca", marca) ELSE d1
        d3 == IF TruthyLista(produtos) THEN filtrar_isin(d2, "Produto", produtos) ELSE d2
        d4 == IF TruthyLista(lojas) THEN filtrar_isin(d3, "Nome da Loja", lojas) ELSE d3
        d5 == IF TruthyLista(clientes) THEN filtrar_isin(d4, "Nome Completo", clientes) ELSE d4
    IN  converter_datas(d5)

\* df['Mês'] = df['Data da Venda'].dt.to_period('M').astype(str)
coluna_mes(d) ==
    assign(d, "Mês", [k \in DOMAIN d.rows |-> <<to_period_M_str(d.rows[k]["Data da Venda"])>>])

\* the order of the month labels as texts: "YYYY-MM" by date, "NaT" after every digit
OrdemMes(d, rotulo) ==
    IF rotulo = "NaT" THEN 10000 * 12
    ELSE LET r == CHOOSE x \in Range(d.rows) : x["Mês"] = <<rotulo>>
         IN  r["Data da Venda"][1].ano * 12 + r["Data da Venda"][1].mes

vendas_por_ano(d) ==
    groupby_sum(d, "Ano", "Valor da Venda", OrdemNumero(Chaves(d, "Ano")))

top_clientes(d) ==
    nlargest(groupby_sum(d, "Nome Completo", "Valor da Venda", OrdemTexto), TopN)

top_produtos(d) ==
    nlargest(groupby_sum(d, "Produto", "Valor da Venda", OrdemTexto), TopN)

vendas_lojas(d) == groupby_sum(d, "Nome da Loja", "Valor da Venda", OrdemTexto)

\* px.pie receives the rows themselves
pizza_tipo(d) ==
    [k \in DOMAIN d.rows |->
        [chave |-> d.rows[k]["Tipo do Produto"], valor |-> d.rows[k]["Valor da Venda"]]]

vendas_mes(d) ==
    LET dm == coluna_mes(d)
    IN  groupby_sum(dm, "Mês", "Valor da Venda",
                    [t \in Chaves(dm, "Mês") |-> OrdemMes(dm, t)])

\* fig1 .. fig6 of a filtered frame
figuras(d) ==
    <<[titulo |-> "Vendas por Ano", dados |-> vendas_por_ano(d)],
      [titulo |-> "Top 10 Clientes", dados |-> top_clientes(d)],
      [titulo |-> "Top 10 Produtos", dados |-> top_produtos(d)],
      [titulo |-> "Vendas por Loja", dados |-> vendas_lojas(d)],
      [titulo |-> "Distribuição por Tipo de Produto", dados |-> pizza_tipo(d)],
      [titulo |-> "Evolução Mensal de Vendas", dados |-> vendas_mes(d)]>>

\* A call of atualizar_graficos: its local df when it ends and what it answers.
\* levantou: one of the statements that build the six figures raised; the
\* function has no handler, so the exception leaves it and no figure is returned.
atualizar_graficos(total, a, levantou) ==
    LET d == filtrar(total, a.tipo, a.marca, a.produtos, a.lojas, a.clientes)
    IN  [callback |-> "atualizar_graficos", args |-> a,
         df |-> IF levantou THEN d ELSE coluna_mes(d),
         levantou |-> levantou,
         saida |-> IF levantou THEN <<>> ELSE figuras(d)]

\* a call of atualizar_marcas: it has no local frame
chamada_marcas(total, tipo) ==
    [callback |-> "atualizar_marcas", args |-> [tipo |-> tipo], df |-> [columns |-> <<>>, rows |-> <<>>],
     levantou |-> FALSE, saida |-> atualizar_marcas(total, tipo)]

-----------------------------------------------------------------------------
(* The workbooks the model is run on.                                      *)

Dia(d, m, a) == [dia |-> d, mes |-> m, ano |-> a]

\* a row of cells holding the given values
Celulas(valores) == [i \in DOMAIN valores |-> <<valores[i]>>]

CabecalhoVendas == Celulas(<<"Data", "OC", "SKU", "Cliente", "Qtd", "Loja">>)

\* sales rows: date, order, product, customer, quantity, store
VendasCandidatas ==
    <<Celulas(<<Dia(1, 3, 2021), 1, 1, 1, 2, 1>>),
      Celulas(<<Dia(15, 3, 2021), 2, 2, 2, 1, 2>>),
      Celulas(<<Dia(31, 2, 2021), 3, 1, 2, 1, 1>>),
      Celulas(<<Dia(5, 12, 2020), 4, 3, 1, 3, 9>>),
      Celulas(<<Dia(10, 1, 2022), 5, 9, 9, 1, 2>>)>>

PlanilhaVendas(linhas) == <<CabecalhoVendas>> \o linhas

\* two title rows, the header, the customers
PlanilhaClientes ==
    <<Celulas(<<"Cadastro de Clientes", "", "">>),
      <<NaN, NaN, NaN>>,
      Celulas(<<"ID Cliente", "Primeiro Nome", "Sobrenome">>),
      Celulas(<<1, "Alice", "Silva">>),
      Celulas(<<2, "Bob", "Souza">>)>>

\* the same customers with the full name already in one column
PlanilhaClientesUnificada ==
    <<Celulas(<<"Cadastro de Clientes", "">>),
      <<NaN, NaN>>,
      Celulas(<<"ID Cliente", "Nome Completo">>),
      Celulas(<<1, "Alice Silva">>),
      Celulas(<<2, "Bob Souza">>)>>

CabecalhoProdutos(chave) ==
    Celulas(<<chave, "Produto", "Tipo do Produto", "Marca", "Preço Unitario">>)

\* the product of key 3 has no brand
PlanilhaProdutos(chave) ==
    <<CabecalhoProdutos(chave),
      Celulas(<<1, "Bota", "Sapatos", "X", 10>>),
      Celulas(<<2, "Polo", "Camisas", "Y", 20>>),
      <<<<3>>, <<"Tenis">>, <<"Sapatos">>, NaN, <<5>>>> >>

\* a product workbook without the price column
PlanilhaProdutosSemPreco ==
    <<Celulas(<<"SKU", "Produto", "Tipo do Produto", "Marca">>),
      Celulas(<<1, "Bota", "Sapatos", "X">>)>>

PlanilhaLojas ==
    <<Celulas(<<"ID Loja", "Nome da Loja">>),
      Celulas(<<1, "Centro">>),
      Celulas(<<2, "Norte">>)>>

Arquivo(planilha) == [existe |-> TRUE, planilha |-> planilha]

Caminhos ==
    Range(arquivos_vendas) \cup {arquivo_clientes, arquivo_produtos, arquivo_lojas}

\* the six workbooks, given the three sales sheets and the reference sheets
Disco(v, c, pr, l) ==
    [p \in Caminhos |->
        IF p = arquivo_clientes THEN Arquivo(c)
        ELSE IF p = arquivo_produtos THEN Arquivo(pr)
        ELSE IF p = arquivo_lojas THEN Arquivo(l)
        ELSE Arquivo(PlanilhaVendas(v[Pos(arquivos_vendas, p)]))]

\* the sequences over S of length at most n
SeqAte(S, n) == UNION {[1..k -> S] : k \in 0..n}

-----------------------------------------------------------------------------
(* The Dash objects and the page.                                          *)

Vazio == [columns |-> <<>>, rows |-> <<>>]

SemFiltros == [f \in DOMAIN colunas_filtros |-> <<>>]

SemChamada ==
    [callback |-> "nenhum", args |-> <<>>, df |-> Vazio, levantou |-> FALSE, saida |-> <<>>]

\* Dash(__name__): no layout, no callbacks
ObjetoNovo ==
    [titulo |-> "", opcoes |-> [w \in {} |-> <<>>], graficos |-> <<>>, callbacks |-> {}]

IdsGraficos ==
    <<"grafico_ano", "grafico_cliente", "grafico_produto", "grafico_loja",
      "grafico_pizza_tipo", "grafico_area_tempo">>

IdsFiltros ==
    {"filtro_tipo", "filtro_marca", "filtro_produto", "filtro_loja", "filtro_cliente"}

\* the options each dropdown of the dashboard layout starts with
opcoes_layout(f) ==
    [w \in IdsFiltros |->
        IF w = "filtro_tipo" THEN opcoes(sorted(f.tipo))
        ELSE IF w = "filtro_produto" THEN opcoes(sorted(f.produto))
        ELSE IF w = "filtro_loja" THEN opcoes(sorted(f.loja))
        ELSE IF w = "filtro_cliente" THEN opcoes(sorted(f.cliente))
        ELSE <<>>]

\* app.layout = dbc.Container([...]) on the object o
layout_painel(o, f) ==
    [o EXCEPT !.titulo = "Dashboard de Vendas", !.opcoes = opcoes_layout(f),
              !.graficos = IdsGraficos]

\* app.layout = html.Div([html.H1("Hello Dash")]) on the object o
layout_hello(o) ==
    [o EXCEPT !.titulo = "Hello Dash", !.opcoes = [w \in {} |-> <<>>], !.graficos = <<>>]

\* the two @app.callback decorations on the object o
registrar_callbacks(o) ==
    [o EXCEPT !.callbacks = {"atualizar_marcas", "atualizar_graficos"}]

PaginaFechada ==
    [aberta |-> FALSE, tipo |-> NaN, marca |-> NaN, produtos |-> <<>>, lojas |-> <<>>,
     clientes |-> <<>>, opcoes_marca |-> <<>>]

\* the page as the layout builds it: nothing selected, no brand options
PaginaInicial == [PaginaFechada EXCEPT !.aberta = TRUE]

\* the arguments Dash passes to atualizar_graficos for the page w
ArgsDe(w) ==
    [tipo |-> w.tipo, marca |-> w.marca, produtos |-> w.produtos, lojas |-> w.lojas,
     clientes |-> w.clientes]

PedidoMarcas(w) == [callback |-> "atualizar_marcas", args |-> [tipo |-> w.tipo]]

PedidoGraficos(w) == [callback |-> "atualizar_graficos", args |-> ArgsDe(w)]

-----------------------------------------------------------------------------
(* Module execution, statement block by statement block.  An exception at  *)
(* module level ends the process: pc = "encerrado".                        *)

dados == <<lista_vendas, df_vendas, df_clientes, df_produtos, df_lojas, df_total, filtros>>

dash == <<objetos, app, server, servindo>>

pagina == <<widgets, pendentes, chamada>>

\* for arquivo in arquivos_vendas: one turn of the loop
LerVendas ==
    /\ pc = "ler_vendas"
    /\ LET i   == Len(lista_vendas) + 1
           arq == disco[arquivos_vendas[i]]
       IN  IF ler_venda_falha(arq)
           THEN pc' = "encerrado" /\ UNCHANGED lista_vendas
           ELSE /\ lista_vendas' = Append(lista_vendas, ler_venda(arq.planilha))
                /\ pc' = IF i = Len(arquivos_vendas) THEN "concatenar" ELSE "ler_vendas"
    /\ UNCHANGED <<nome, disco, df_vendas, df_clientes, df_produtos, df_lojas, df_total,
                   filtros, dash, pagina>>

ConcatenarVendas ==
    /\ pc = "concatenar"
    /\ df_vendas' = concat(lista_vendas)
    /\ pc' = "ler_clientes"
    /\ UNCHANGED <<nome, disco, lista_vendas, df_clientes, df_produtos, df_lojas, df_total,
                   filtros, dash, pagina>>

LerClientes ==
    /\ pc = "ler_clientes"
    /\ IF disco[arquivo_clientes].existe
       THEN /\ df_clientes' = read_excel(disco[arquivo_clientes].planilha, SkipRowsClientes)
            /\ pc' = "ler_produtos"
       ELSE pc' = "encerrado" /\ UNCHANGED df_clientes
    /\ UNCHANGED <<nome, disco, lista_vendas, df_vendas, df_produtos, df_lojas, df_total,
                   filtros, dash, pagina>>

LerProdutos ==
    /\ pc = "ler_produtos"
    /\ IF disco[arquivo_produtos].existe
       THEN /\ df_produtos' = read_excel(disco[arquivo_produtos].planilha, 0)
            /\ pc' = "ler_lojas"
       ELSE pc' = "encerrado" /\ UNCHANGED df_produtos
    /\ UNCHANGED <<nome, disco, lista_vendas, df_vendas, df_clientes, df_lojas, df_total,
                   filtros, dash, pagina>>

LerLojas ==
    /\ pc = "ler_lojas"
    /\ IF disco[arquivo_lojas].existe
       THEN /\ df_lojas' = read_excel(disco[arquivo_lojas].planilha, 0)
            /\ pc' = "tratar"
       ELSE pc' = "encerrado" /\ UNCHANGED df_lojas
    /\ UNCHANGED <<nome, disco, lista_vendas, df_vendas, df_clientes, df_produtos, df_total,
                   filtros, dash, pagina>>

\* the normalisation block: full name, SKU renames, date conversion
TratarDados ==
    /\ pc = "tratar"
    /\ df_clientes' = tratar_clientes(df_clientes)
    /\ df_produtos' = renomear_sku(df_produtos)
    /\ df_vendas' = converter_datas(renomear_sku(df_vendas))
    /\ pc' = "mesclar"
    /\ UNCHANGED <<nome, disco, lista_vendas, df_lojas, df_total, filtros, dash, pagina>>

Mesclar ==
    /\ pc = "mesclar"
    /\ IF mesclar_falha(df_vendas, df_clientes, df_produtos, df_lojas)
       THEN pc' = "encerrado" /\ UNCHANGED df_total
       ELSE /\ df_total' = mesclar(df_vendas, df_clientes, df_produtos, df_lojas)
            /\ pc' = "auxiliares"
    /\ UNCHANGED <<nome, disco, lista_vendas, df_vendas, df_clientes, df_produtos, df_lojas,
                   filtros, dash, pagina>>

\* the derived columns with the KeyError of 'Valor da Venda' swallowed
ColunasAuxiliaresTolerante ==
    /\ pc = "auxiliares"
    /\ IF coluna_valor_falha(coluna_ano(df_total))
       THEN df_total' = coluna_ano(df_total)
       ELSE df_total' = coluna_valor(coluna_ano(df_total))
    /\ pc' = "filtros"
    /\ UNCHANGED <<nome, disco, lista_vendas, df_vendas, df_clientes, df_produtos, df_lojas,
                   filtros, dash, pagina>>

\* 'Ano' is added first; 'Valor da Venda' raises when there is no price column
ColunasAuxiliares ==
    /\ pc = "auxiliares"
    /\ IF coluna_valor_falha(coluna_ano(df_total))
       THEN df_total' = coluna_ano(df_total) /\ pc' = "encerrado"
       ELSE df_total' = coluna_valor(coluna_ano(df_total)) /\ pc' = "filtros"
    /\ UNCHANGED <<nome, disco, lista_vendas, df_vendas, df_clientes, df_produtos, df_lojas,
                   filtros, dash, pagina>>

PrepararFiltros ==
    /\ pc = "filtros"
    /\ IF preparar_filtros_falha(df_total)
       THEN pc' = "encerrado" /\ UNCHANGED filtros
       ELSE filtros' = preparar_filtros(df_total) /\ pc' = "criar_app"
    /\ UNCHANGED <<nome, disco, lista_vendas, df_vendas, df_clientes, df_produtos, df_lojas,
                   df_total, dash, pagina>>

\* app = Dash(...); server = app.server
CriarApp ==
    /\ pc = "criar_app"
    /\ objetos' = Append(objetos, ObjetoNovo)
    /\ app' = Len(objetos) + 1
    /\ server' = Len(objetos) + 1
    /\ pc' = "layout"
    /\ UNCHANGED <<nome, disco, dados, servindo, pagina>>

MontarLayout ==
    /\ pc = "layout"
    /\ objetos' = [objetos EXCEPT ![app] = layout_painel(@, filtros)]
    /\ pc' = "callbacks"
    /\ UNCHANGED <<nome, disco, dados, app, server, servindo, pagina>>

RegistrarCallbacks ==
    /\ pc = "callbacks"
    /\ objetos' = [objetos EXCEPT ![app] = registrar_callbacks(@)]
    /\ pc' = "main_1"
    /\ UNCHANGED <<nome, disco, dados, app, server, servindo, pagina>>

\* if __name__ == '__main__': app.run_server(debug=True)   (the first one)
Principal1 ==
    /\ pc = "main_1"
    /\ IF nome = "__main__"
       THEN servindo' = app /\ pc' = "run_server_1"
       ELSE servindo' = servindo /\ pc' = "criar_app_2"
    /\ UNCHANGED <<nome, disco, dados, objetos, app, server, pagina>>

\* run_server is interrupted: it returns, or the process exits inside it
PararServidor ==
    /\ pc \in {"run_server_1", "run_server_2"}
    /\ servindo' = 0
    /\ widgets' = PaginaFechada
    /\ pendentes' = {}
    /\ \/ pc' = "encerrado"
       \/ pc' = IF pc = "run_server_1" THEN "criar_app_2" ELSE "fim"
    /\ UNCHANGED <<nome, disco, dados, objetos, app, server, chamada>>

\* from dash import Dash, html; app = Dash(__name__); server = app.server
CriarApp2 ==
    /\ pc = "criar_app_2"
    /\ objetos' = Append(objetos, ObjetoNovo)
    /\ app' = Len(objetos) + 1
    /\ server' = Len(objetos) + 1
    /\ pc' = "layout_2"
    /\ UNCHANGED <<nome, disco, dados, servindo, pagina>>

MontarLayout2 ==
    /\ pc = "layout_2"
    /\ objetos' = [objetos EXCEPT ![app] = layout_hello(@)]
    /\ pc' = "main_2"
    /\ UNCHANGED <<nome, disco, dados, app, server, servindo, pagina>>

\* if __name__ == "__main__": app.run_server(debug=True)   (the second one)
Principal2 ==
    /\ pc = "main_2"
    /\ IF nome = "__main__"
       THEN servindo' = app /\ pc' = "run_server_2"
       ELSE servindo' = servindo /\ pc' = "fim"
    /\ UNCHANGED <<nome, disco, dados, objetos, app, server, pagina>>

\* the module was imported: the WSGI host serves the module attribute server
Hospedar ==
    /\ pc = "fim"
    /\ nome # "__main__"
    /\ servindo = 0
    /\ servindo' = server
    /\ UNCHANGED <<pc, nome, disco, dados, objetos, app, server, pagina>>

-----------------------------------------------------------------------------
(* The callbacks as actions, and the page that triggers them.              *)

\* atualizar_graficos with df = df_total where df = df_total.copy() is meant: when
\* no filter rebinds df, the two column assignments write into df_total
AtualizarGraficosSemCopia(a, levantou) ==
    /\ chamada' = atualizar_graficos(df_total, a, levantou)
    /\ df_total' = IF \/ Truthy(a.tipo) \/ Truthy(a.marca) \/ TruthyLista(a.produtos)
                      \/ TruthyLista(a.lojas) \/ TruthyLista(a.clientes)
                   THEN df_total ELSE chamada'.df

\* One call of atualizar_graficos with the arguments a.  It binds only its
\* local df (a copy of df_total) and answers; df_total is not assigned.
AtualizarGraficos(a, levantou) ==
    /\ chamada' = atualizar_graficos(df_total, a, levantou)
    /\ df_total' = df_total

\* One call of atualizar_marcas.
AtualizarMarcas(tipo) ==
    /\ chamada' = chamada_marcas(df_total, tipo)
    /\ df_total' = df_total

resto_dados == <<lista_vendas, df_vendas, df_clientes, df_produtos, df_lojas, filtros>>

\* the dropdown w is on the page being served
TemFiltro(w) ==
    /\ servindo # 0
    /\ widgets.aberta
    /\ w \in DOMAIN objetos[servindo].opcoes

Valores(ops) == {ops[i].value : i \in DOMAIN ops}

\* the lists a multi-select dropdown with the options ops can be set to
Escolhas(ops) ==
    {l \in SeqAte(Valores(ops), MaxEscolhas) : \A i, j \in DOMAIN l : i # j => l[i] # l[j]}

\* the page sends the requests ps, those whose callback the served object has
Despachar(ps) ==
    /\ pendentes' = pendentes \cup {p \in ps : p.callback \in objetos[servindo].callbacks}
    /\ Cardinality(pendentes') <= MaxPendentes

\* the browser loads the page: every callback is called once with the initial values
AbrirPagina ==
    /\ servindo # 0
    /\ ~widgets.aberta
    /\ widgets' = PaginaInicial
    /\ Despachar({PedidoMarcas(PaginaInicial), PedidoGraficos(PaginaInicial)})
    /\ UNCHANGED <<pc, nome, disco, dados, dash, chamada>>

\* filtro_tipo changes: both callbacks have it as Input
SelecionarTipo ==
    /\ TemFiltro("filtro_tipo")
    /\ \E t \in {NaN} \cup {<<v>> : v \in Valores(objetos[servindo].opcoes["filtro_tipo"])} :
          /\ t # widgets.tipo
          /\ widgets' = [widgets EXCEPT !.tipo = t]
          /\ Despachar({PedidoMarcas(widgets'), PedidoGraficos(widgets')})
    /\ UNCHANGED <<pc, nome, disco, dados, dash, chamada>>

\* filtro_marca changes: the user picks one of the options it holds, or clears it
SelecionarMarca ==
    /\ TemFiltro("filtro_marca")
    /\ \E m \in {NaN} \cup {<<v>> : v \in Valores(widgets.opcoes_marca)} :
          /\ m # widgets.marca
          /\ widgets' = [widgets EXCEPT !.marca = m]
          /\ Despachar({PedidoGraficos(widgets')})
    /\ UNCHANGED <<pc, nome, disco, dados, dash, chamada>>

SelecionarProdutos ==
    /\ TemFiltro("filtro_produto")
    /\ \E l \in Escolhas(objetos[servindo].opcoes["filtro_produto"]) :
          /\ l # widgets.produtos
          /\ widgets' = [widgets EXCEPT !.produtos = l]
          /\ Despachar({PedidoGraficos(widgets')})
    /\ UNCHANGED <<pc, nome, disco, dados, dash, chamada>>

SelecionarLojas ==
    /\ TemFiltro("filtro_loja")
    /\ \E l \in Escolhas(objetos[servindo].opcoes["filtro_loja"]) :
          /\ l # widgets.lojas
          /\ widgets' = [widgets EXCEPT !.lojas = l]
          /\ Despachar({PedidoGraficos(widgets')})
    /\ UNCHANGED <<pc, nome, disco, dados, dash, chamada>>

SelecionarClientes ==
    /\ TemFiltro("filtro_cliente")
    /\ \E l \in Escolhas(objetos[servindo].opcoes["filtro_cliente"]) :
          /\ l # widgets.clientes
          /\ widgets' = [widgets EXCEPT !.clientes = l]
          /\ Despachar({PedidoGraficos(widgets')})
    /\ UNCHANGED <<pc, nome, disco, dados, dash, chamada>>

\* The dropdown component may drop a value that is not among its new options
\* (newer releases of the component do, older ones keep it).  When it does, the
\* value change triggers atualizar_graficos.
LimparMarcaInvalida ==
    /\ TemFiltro("filtro_marca")
    /\ Truthy(widgets.marca)
    /\ widgets.marca[1] \notin Valores(widgets.opcoes_marca)
    /\ \A p \in pendentes : p.callback # "atualizar_marcas"
    /\ widgets' = [widgets EXCEPT !.marca = NaN]
    /\ Despachar({PedidoGraficos(widgets')})
    /\ UNCHANGED <<pc, nome, disco, dados, dash, chamada>>

\* the server answers a pending atualizar_marcas request: Output filtro_marca.options
ResponderMarcas ==
    /\ servindo # 0
    /\ \E p \in pendentes :
          /\ p.callback = "atualizar_marcas"
          /\ AtualizarMarcas(p.args.tipo)
          /\ pendentes' = pendentes \ {p}
          /\ widgets' = [widgets EXCEPT !.opcoes_marca = chamada'.saida]
    /\ UNCHANGED <<pc, nome, disco, resto_dados, dash>>

\* the server answers a pending atualizar_graficos request
ResponderGraficos ==
    /\ servindo # 0
    /\ \E p \in pendentes, levantou \in BOOLEAN :
          /\ p.callback = "atualizar_graficos"
          /\ AtualizarGraficos(p.args, levantou)
          /\ pendentes' = pendentes \ {p}
    /\ UNCHANGED <<pc, nome, disco, resto_dados, dash, widgets>>

-----------------------------------------------------------------------------
(* The module run from its first statement.                                *)

\* the sales sheets of 2020, 2021 and 2022 the module specification starts from
VendasModulo ==
    <<<<VendasCandidatas[4]>>,
      <<VendasCandidatas[1], VendasCandidatas[2], VendasCandidatas[3]>>,
      <<VendasCandidatas[5]>>>>

\* the disk d without the workbooks F
Sem(d, F) == [p \in DOMAIN d |-> IF p \in F THEN [d[p] EXCEPT !.existe = FALSE] ELSE d[p]]

DiscosModulo ==
    {Sem(Disco(VendasModulo, c, pr, PlanilhaLojas), F) :
        c \in {PlanilhaClientes, PlanilhaClientesUnificada},
        pr \in {PlanilhaProdutos("SKU"), PlanilhaProdutos("ID Produto"),
                PlanilhaProdutosSemPreco},
        F \in SUBSET Caminhos}

Init ==
    /\ pc = "ler_vendas"
    /\ nome \in {"__main__", "app"}
    /\ disco \in DiscosModulo
    /\ lista_vendas = <<>>
    /\ df_vendas = Vazio
    /\ df_clientes = Vazio
    /\ df_produtos = Vazio
    /\ df_lojas = Vazio
    /\ df_total = Vazio
    /\ filtros = SemFiltros
    /\ objetos = <<>>
    /\ app = 0
    /\ server = 0
    /\ servindo = 0
    /\ widgets = PaginaFechada
    /\ pendentes = {}
    /\ chamada = SemChamada

-----------------------------------------------------------------------------
(* The callbacks called with arbitrary arguments on a served dashboard.    *)

\* the state in which the module, run as __main__ on the disk d, serves the dashboard
Pronto(d) ==
    LET lv == [i \in DOMAIN arquivos_vendas |-> ler_venda(d[arquivos_vendas[i]].planilha)]
        v  == converter_datas(renomear_sku(concat(lv)))
        c  == tratar_clientes(read_excel(d[arquivo_clientes].planilha, SkipRowsClientes))
        pr == renomear_sku(read_excel(d[arquivo_produtos].planilha, 0))
        l  == read_excel(d[arquivo_lojas].planilha, 0)
        t  == coluna_valor(coluna_ano(mesclar(v, c, pr, l)))
        f  == preparar_filtros(t)
    IN  /\ pc = "run_server_1"
        /\ nome = "__main__"
        /\ disco = d
        /\ lista_vendas = lv
        /\ df_vendas = v
        /\ df_clientes = c
        /\ df_produtos = pr
        /\ df_lojas = l
        /\ df_total = t
        /\ filtros = f
        /\ objetos = <<registrar_callbacks(layout_painel(ObjetoNovo, f))>>
        /\ app = 1
        /\ server = 1
        /\ servindo = 1
        /\ widgets = PaginaFechada
        /\ pendentes = {}
        /\ chamada = SemChamada

DiscoConsulta(v) ==
    Disco(<<v, <<>>, <<>>>>, PlanilhaClientes, PlanilhaProdutos("SKU"), PlanilhaLojas)

InitConsulta ==
    \E v \in SeqAte(Range(VendasCandidatas), MaxLinhas) : Pronto(DiscoConsulta(v))

\* the arguments the callbacks are called with
TiposConsulta == {NaN, <<"">>, <<"Sapatos">>, <<"Camisas">>}

ArgsConsulta ==
    [tipo : TiposConsulta,
     marca : {NaN, <<"X">>},
     produtos : {<<>>, <<"Bota", "Polo">>},
     lojas : {<<>>, <<"Centro">>},
     clientes : {<<>>}]
    \cup
    [tipo : {NaN, <<"Sapatos">>},
     marca : {NaN, <<"X">>},
     produtos : {<<>>, <<"Bota", "Polo">>},
     lojas : {<<"Centro">>},
     clientes : {<<"Bob Souza", "Alice Silva">>}]

\* a request for atualizar_marcas reaches the server: nothing selected, or one
\* of the options the type dropdown of the served layout offers
ChamarMarcas ==
    /\ servindo # 0
    /\ "atualizar_marcas" \in objetos[servindo].callbacks
    /\ \E tipo \in {NaN, <<"">>}
                    \cup {<<v>> : v \in Valores(objetos[servindo].opcoes["filtro_tipo"])} :
          AtualizarMarcas(tipo)
    /\ UNCHANGED <<pc, nome, disco, resto_dados, dash, widgets, pendentes>>

\* a request for atualizar_graficos reaches the server
ChamarGraficos ==
    /\ servindo # 0
    /\ "atualizar_graficos" \in objetos[servindo].callbacks
    /\ \E a \in ArgsConsulta, levantou \in BOOLEAN : AtualizarGraficos(a, levantou)
    /\ UNCHANGED <<pc, nome, disco, resto_dados, dash, widgets, pendentes>>

NextConsulta ==
    \/ ChamarMarcas
    \/ ChamarGraficos

SpecConsulta == InitConsulta /\ [][NextConsulta]_vars

-----------------------------------------------------------------------------
(* The module run from its first statement, then serving.                  *)

Next ==
    \/ LerVendas
    \/ ConcatenarVendas
    \/ LerClientes
    \/ LerProdutos
    \/ LerLojas
    \/ TratarDados
    \/ Mesclar
    \/ ColunasAuxiliares
    \/ PrepararFiltros
    \/ CriarApp
    \/ MontarLayout
    \/ RegistrarCallbacks
    \/ Principal1
    \/ PararServidor
    \/ CriarApp2
    \/ MontarLayout2
    \/ Principal2
    \/ Hospedar
    \/ AbrirPagina
    \/ ResponderMarcas
    \/ ResponderGraficos
    \/ ChamarMarcas
    \/ ChamarGraficos

Spec == Init /\ [][Next]_vars

-----------------------------------------------------------------------------
(* The page of a served dashboard and its cascading brand filter.          *)

\* two sales of one customer in one store: a boot of brand X, a shirt of brand Y
VendasPagina ==
    <<Celulas(<<Dia(1, 3, 2021), 1, 1, 1, 2, 1>>),
      Celulas(<<Dia(15, 3, 2021), 2, 2, 1, 1, 1>>)>>

InitPagina == Pronto(DiscoConsulta(VendasPagina))

NextPagina ==
    \/ AbrirPagina
    \/ SelecionarTipo
    \/ SelecionarMarca
    \/ SelecionarProdutos
    \/ SelecionarLojas
    \/ SelecionarClientes
    \/ LimparMarcaInvalida
    \/ ResponderMarcas
    \/ ResponderGraficos

SpecPagina == InitPagina /\ [][NextPagina]_vars

-----------------------------------------------------------------------------
(* The rankings on tables with more than TopN customers and products.      *)

NumTop == TopN + ExtraTop

\* sale i: product i, customer i counted round TopN + 1, quantity q[i] (1 for
\* the sales q does not cover)
VendasTop(n, q) ==
    [i \in 1..n |->
        Celulas(<<Dia(1, 1 + (i % 12), 2021), i, i, ((i - 1) % (TopN + 1)) + 1,
                  IF i \in DOMAIN q THEN q[i] ELSE 1, 1>>)]

PlanilhaClientesTop ==
    <<Celulas(<<"Cadastro de Clientes", "", "">>),
      <<NaN, NaN, NaN>>,
      Celulas(<<"ID Cliente", "Primeiro Nome", "Sobrenome">>)>>
    \o [i \in 1..NumTop |-> Celulas(<<i, "Cliente", Pad2(i)>>)]

\* every product costs 1
PlanilhaProdutosTop ==
    <<CabecalhoProdutos("SKU")>>
    \o [i \in 1..NumTop |-> Celulas(<<i, NomeProduto(i), "Sapatos", "X", 1>>)]

DiscoTop(v) == Disco(<<v, <<>>, <<>>>>, PlanilhaClientesTop, PlanilhaProdutosTop, PlanilhaLojas)

InitTop ==
    \E n \in 0..NumTop :
        \E q \in [{i \in 1..n : i > n - VarTop} -> {1, 2}] : Pronto(DiscoTop(VendasTop(n, q)))

\* nothing selected, or one store, or the product type every product has
ArgsTop ==
    [tipo : {NaN, <<"Sapatos">>}, marca : {NaN}, produtos : {<<>>},
     lojas : {<<>>, <<"Centro">>}, clientes : {<<>>}]

\* a request for atualizar_graficos reaches the server
ChamarGraficosTop ==
    /\ servindo # 0
    /\ "atualizar_graficos" \in objetos[servindo].callbacks
    /\ \E a \in ArgsTop, levantou \in BOOLEAN : AtualizarGraficos(a, levantou)
    /\ UNCHANGED <<pc, nome, disco, resto_dados, dash, widgets, pendentes>>

NextTop == ChamarGraficosTop

SpecTop == InitTop /\ [][NextTop]_vars

-----------------------------------------------------------------------------
(* Properties.                                                             *)

EhGraficos == chamada.callback = "atualizar_graficos"

EhMarcas == chamada.callback = "atualizar_marcas"

\* the last call was atualizar_graficos and it returned its six figures
Produziu == EhGraficos /\ ~chamada.levantou

RECURSIVE TotalLinhas(_)
\* the sum of 'Valor da Venda' over a sequence of rows, a missing value counting 0
TotalLinhas(linhas) ==
    IF linhas = <<>> THEN 0
    ELSE (IF Head(linhas)["Valor da Venda"] = NaN THEN 0 ELSE Head(linhas)["Valor da Venda"][1])
         + TotalLinhas(Tail(linhas))

RECURSIVE TotalSerie(_)
\* the sum of the values of a series
TotalSerie(serie) ==
    IF serie = <<>> THEN 0 ELSE Head(serie).valor + TotalSerie(Tail(serie))

\* the rows of a frame whose column col is not missing
LinhasCom(d, col) == SelectSeq(d.rows, LAMBDA r : r[col] # NaN)

\* the rows of a frame whose column col holds v
LinhasDe(d, col, v) == SelectSeq(d.rows, LAMBDA r : r[col] = <<v>>)

\* C1: every row of the frame atualizar_graficos aggregates is a row of df_total
\* and satisfies every active filter of the selection at once.
C1_FiltrosConjuntivos ==
    EhGraficos =>
        \A r \in Range(chamada.df.rows) :
            LET a == chamada.args
            IN  /\ \E t \in Range(df_total.rows) :
                      \A c \in Range(df_total.columns) : r[c] = t[c]
                /\ (a.tipo # <<>> /\ a.tipo # <<"">>) => r["Tipo do Produto"] = a.tipo
                /\ (a.marca # <<>> /\ a.marca # <<"">>) => r["Marca"] = a.marca
                /\ a.produtos # <<>> =>
                      \E i \in DOMAIN a.produtos : r["Produto"] = <<a.produtos[i]>>
                /\ a.lojas # <<>> =>
                      \E i \in DOMAIN a.lojas : r["Nome da Loja"] = <<a.lojas[i]>>
                /\ a.clientes # <<>> =>
                      \E i \in DOMAIN a.clientes : r["Nome Completo"] = <<a.clientes[i]>>

\* a call with type, product and customer filters active that keeps some rows and drops others
C1_Witness ==
    /\ EhGraficos
    /\ chamada.args.tipo = <<"Sapatos">>
    /\ chamada.args.marca = <<"X">>
    /\ chamada.args.produtos # <<>>
    /\ chamada.args.lojas # <<>>
    /\ chamada.args.clientes # <<>>
    /\ chamada.df.rows # <<>>
    /\ Len(chamada.df.rows) < Len(df_total.rows)

\* C2 as stated: the per-year values add up to the total of 'Valor da Venda' over
\* every row of the filtered frame, rows with a null sale date included.
C2_ConservacaoTotal ==
    Produziu => TotalSerie(chamada.saida[1].dados) = TotalLinhas(chamada.df.rows)

\* C2 amended: the per-year values add up to the total of 'Valor da Venda' over the
\* rows of the filtered frame whose 'Ano' is not null, and each year's value is the
\* total of the rows of that year.
C2_ConservacaoComAno ==
    Produziu =>
        /\ TotalSerie(chamada.saida[1].dados) = TotalLinhas(LinhasCom(chamada.df, "Ano"))
        /\ \A i \in DOMAIN chamada.saida[1].dados :
              LET e == chamada.saida[1].dados[i]
              IN  e.valor = TotalLinhas(LinhasDe(chamada.df, "Ano", e.chave))

\* a filtered frame with a dated row and a row without date, both with a value,
\* and two rows of one year
C2_Witness ==
    /\ Produziu
    /\ \E r \in Range(chamada.df.rows) : r["Ano"] = NaN /\ r["Valor da Venda"] # NaN
    /\ \E i \in DOMAIN chamada.saida[1].dados :
          chamada.saida[1].dados[i].valor > 0

\* a filtered frame with two rows of one year
C2_WitnessDoisNoAno ==
    /\ Produziu
    /\ \E i \in DOMAIN chamada.saida[1].dados :
          Len(LinhasDe(chamada.df, "Ano", chamada.saida[1].dados[i].chave)) > 1

\* C3 as stated: no entry of the monthly series has a key derived from a null
\* date, and no row with a null date is counted in any entry.
C3_MesSemDataNula ==
    Produziu =>
        /\ \A i \in DOMAIN chamada.saida[6].dados : chamada.saida[6].dados[i].chave # "NaT"
        /\ TotalSerie(chamada.saida[6].dados)
              = TotalLinhas(LinhasCom(chamada.df, "Data da Venda"))

\* C4 as stated: no type selected, no options; a type selected, a non-empty list
\* of brands, each the brand of a df_total row of that type.
C4_MarcasNaoVazias ==
    EhMarcas =>
        LET t == chamada.args.tipo
        IN  IF t = <<>> \/ t = <<"">> THEN chamada.saida = <<>>
            ELSE /\ chamada.saida # <<>>
                 /\ \A i \in DOMAIN chamada.saida :
                       \E r \in Range(df_total.rows) :
                           r["Tipo do Produto"] = t /\ r["Marca"] = <<chamada.saida[i].value>>

\* C4 amended: no type selected, no options; a type selected, every option is the
\* brand of a df_total row of that type, and the list is non-empty exactly when
\* some df_total row of that type has a brand.
C4_MarcasDoTipo ==
    EhMarcas =>
        LET t == chamada.args.tipo
        IN  IF t = <<>> \/ t = <<"">> THEN chamada.saida = <<>>
            ELSE /\ \A i \in DOMAIN chamada.saida :
                       \E r \in Range(df_total.rows) :
                           r["Tipo do Produto"] = t /\ r["Marca"] = <<chamada.saida[i].value>>
                 /\ chamada.saida # <<>> <=>
                       \E r \in Range(df_total.rows) :
                           r["Tipo do Produto"] = t /\ r["Marca"] # NaN

\* a type is selected, it has a brand, and another type of the table has another brand
C4_Witness ==
    /\ EhMarcas
    /\ chamada.args.tipo = <<"Sapatos">>
    /\ chamada.saida # <<>>
    /\ \E r \in Range(df_total.rows) :
          r["Tipo do Produto"] = <<"Camisas">> /\ r["Marca"] # NaN

\* serie is a ranking of the groups of the column col of the frame d: at most TopN
\* entries, one per key, each the total of its key, largest first, and no key left
\* out has a larger total than a key that is in
Ranking(serie, d, col) ==
    /\ Len(serie) <= TopN
    /\ \A i, j \in DOMAIN serie : i # j => serie[i].chave # serie[j].chave
    /\ \A i \in DOMAIN serie :
          /\ LinhasDe(d, col, serie[i].chave) # <<>>
          /\ serie[i].valor = TotalLinhas(LinhasDe(d, col, serie[i].chave))
    /\ \A i, j \in DOMAIN serie : i < j => serie[i].valor >= serie[j].valor
    /\ \A r \in Range(d.rows) :
          r[col] # NaN =>
              \/ \E i \in DOMAIN serie : <<serie[i].chave>> = r[col]
              \/ /\ Len(serie) = TopN
                 /\ \A i \in DOMAIN serie :
                       TotalLinhas(LinhasDe(d, col, r[col][1])) <= serie[i].valor

\* C5: the top-10 customers series and the top-10 products series each have at most
\* 10 entries, one per group key and equal to the key's total, in non-increasing
\* order, and no group left out has a strictly larger total than a group included.
C5_Top10 ==
    Produziu =>
        /\ Ranking(chamada.saida[2].dados, chamada.df, "Nome Completo")
        /\ Ranking(chamada.saida[3].dados, chamada.df, "Produto")

\* more than TopN products and more than TopN customers are in the frame, and the
\* products ranking does not come in the order of the keys
C5_Witness ==
    /\ Produziu
    /\ Len(chamada.saida[2].dados) = TopN
    /\ Len(chamada.saida[3].dados) = TopN
    /\ Cardinality({r["Produto"] : r \in Range(chamada.df.rows)}) > TopN
    /\ Cardinality({r["Nome Completo"] : r \in Range(chamada.df.rows)}) > TopN
    /\ chamada.saida[3].dados[1].valor > chamada.saida[3].dados[TopN].valor
    /\ chamada.saida[3].dados[1].chave # NomeProduto(1)

\* the module is past the statements that build df_total
AposInicio ==
    pc \notin {"ler_vendas", "concatenar", "ler_clientes", "ler_produtos", "ler_lojas",
               "tratar", "mesclar", "auxiliares"}

\* C6: once the module has built df_total, no step changes it, a call of either
\* callback with any selection included; the 'Mês' column is only in the call's copy.
C6_SomenteLeitura ==
    /\ [][AposInicio => df_total' = df_total]_vars
    /\ [](EhGraficos => "Mês" \notin Range(df_total.columns))

\* a call with nothing selected has ended: its frame has the rows of df_total and
\* the 'Mês' column, which df_total has not
C6_Witness ==
    /\ Produziu
    /\ ~Truthy(chamada.args.tipo) /\ ~Truthy(chamada.args.marca)
    /\ chamada.args.produtos = <<>> /\ chamada.args.lojas = <<>> /\ chamada.args.clientes = <<>>
    /\ chamada.df.rows # <<>>
    /\ "Mês" \in Range(chamada.df.columns)
    /\ Len(chamada.df.rows) = Len(df_total.rows)
    /\ \E r \in Range(df_total.rows) : r["Data da Venda"] = NaN

\* C7 as stated: when the computation of one figure fails, the other five figures
\* are still returned.
C7_FalhaIsolada ==
    (EhGraficos /\ chamada.levantou) => Len(chamada.saida) >= NumFiguras - 1

\* every workbook was read, normalised and joined, and df_total has its two
\* derived columns
InicioCompleto ==
    /\ \A p \in Caminhos : disco[p].existe
    /\ lista_vendas = [i \in DOMAIN arquivos_vendas |-> ler_venda(disco[arquivos_vendas[i]].planilha)]
    /\ df_vendas = converter_datas(renomear_sku(concat(lista_vendas)))
    /\ df_clientes = tratar_clientes(read_excel(disco[arquivo_clientes].planilha, SkipRowsClientes))
    /\ df_produtos = renomear_sku(read_excel(disco[arquivo_produtos].planilha, 0))
    /\ df_lojas = read_excel(disco[arquivo_lojas].planilha, 0)
    /\ {"Ano", "Valor da Venda"} \subseteq Range(df_total.columns)
    /\ "Preço Unitario" \in Range(df_total.columns)
    /\ df_total = coluna_valor(coluna_ano(mesclar(df_vendas, df_clientes, df_produtos, df_lojas)))

\* C8: an application object, an exported server, a serving process, an open page
\* or a callback call exist only when the start-up ran complete; a process that is
\* past the start-up without having completed it has ended.
C8_TudoOuNada ==
    /\ (app # 0 \/ server # 0 \/ servindo # 0 \/ objetos # <<>> \/ widgets.aberta
           \/ pendentes # {} \/ chamada # SemChamada) => InicioCompleto
    /\ (AposInicio /\ pc # "encerrado") => InicioCompleto

\* the dashboard is served from a complete df_total and a callback has answered
C8_Witness ==
    /\ servindo # 0
    /\ pc = "run_server_1"
    /\ Produziu
    /\ chamada.df.rows # <<>>

\* a start-up step failed and ended the process before any application object
C8_WitnessFalha ==
    /\ pc = "encerrado"
    /\ app = 0
    /\ \E p \in Caminhos : ~disco[p].existe

\* C9 as stated: when the imported module has run to its end, app and server are the
\* dashboard application: five filter widgets, six charts, the two callbacks.
C9_AppDoPainel ==
    (pc = "fim" /\ nome # "__main__") =>
        /\ app # 0
        /\ server = app
        /\ objetos[app].titulo = "Dashboard de Vendas"
        /\ DOMAIN objetos[app].opcoes = IdsFiltros
        /\ objetos[app].graficos = IdsGraficos
        /\ objetos[app].callbacks = {"atualizar_marcas", "atualizar_graficos"}

\* C10 as stated: a brand filter atualizar_graficos applies is one of the brands
\* atualizar_marcas returns for the type of the same selection.
C10_MarcaDoTipo ==
    (EhGraficos /\ Truthy(chamada.args.marca)) =>
        \E i \in DOMAIN atualizar_marcas(df_total, chamada.args.tipo) :
            atualizar_marcas(df_total, chamada.args.tipo)[i].value = chamada.args.marca[1]

====
